---- MODULE Spec2Model ----
(***************************************************************************)
(* Model of api/index.py: a serverless inventory API over one Postgres     *)
(* table `servers`.  Python strings that the code slices or searches       *)
(* (URL paths, server names) are tuples of one-character strings; other    *)
(* column values are TLA+ strings.  Python's None is PyNone for a text     *)
(* value and NoTime for a timestamp.                                       *)
(***************************************************************************)
EXTENDS Integers, Sequences, FiniteSets, TLC

VARIABLES
    DATABASE_URL,   \* TRUE iff the environment variable is set (line 21)
    started,        \* module import has run create_servers_table() (line 69)
    tableExists,    \* the relation `servers` exists
    store,          \* committed rows of `servers`
    clock,          \* what datetime.now() reads
    openConns,      \* connections opened and not yet closed
    pc,             \* per caller: position inside handler(request)
    req,            \* per caller: the request being handled
    reqTime,        \* per caller: clock when handler was entered
    op,             \* per caller: which handler the router chose, with its input
    conn,           \* per caller: the handler's local `conn`
    pending,        \* per caller: the uncommitted statement of its transaction
    resp,           \* per caller: what handler returned (or the escaped exception)
    log,            \* per caller: last logging.error / logging.warning line
    startupLog,     \* the logging.error line of create_servers_table, if any
    raced,          \* per caller: another caller's transaction on the same name was open
    lastReport,     \* the payload of the last committed write, if it was a report
    sawReport,      \* per caller: lastReport as of its SELECT
    nreq            \* requests received so far

vars == <<DATABASE_URL, started, tableExists, store, clock, openConns, pc, req,
          reqTime, op, conn, pending, resp, log, startupLog, raced, lastReport, sawReport, nreq>>

-----------------------------------------------------------------------------
(* Bounds of the model *)

MaxClock == 1
MaxRequests == 3

-----------------------------------------------------------------------------
(* Python string operations on tuples of characters *)

startswith(s, p) == Len(s) >= Len(p) /\ SubSeq(s, 1, Len(p)) = p

\* str.find: least 1-based index >= from where sub occurs in s, 0 when absent
find(s, sub, from) ==
    LET hits == {i \in from..(Len(s) - Len(sub) + 1) : SubSeq(s, i, i + Len(sub) - 1) = sub}
    IN IF hits = {} THEN 0 ELSE CHOOSE i \in hits : \A j \in hits : i <= j

\* str.rfind: greatest index where sub occurs, 0 when absent
rfind(s, sub) ==
    LET hits == {i \in 1..(Len(s) - Len(sub) + 1) : SubSeq(s, i, i + Len(sub) - 1) = sub}
    IN IF hits = {} THEN 0 ELSE CHOOSE i \in hits : \A j \in hits : j <= i

\* str.split(sep): maximal pieces between non-overlapping occurrences, left to right
RECURSIVE split(_, _)
split(s, sep) ==
    LET i == find(s, sep, 1)
    IN IF i = 0 THEN <<s>>
       ELSE <<SubSeq(s, 1, i - 1)>> \o split(SubSeq(s, i + Len(sep), Len(s)), sep)

\* text before the first occurrence of the one-character delimiter ch
before(s, ch) ==
    LET i == find(s, <<ch>>, 1) IN IF i = 0 THEN s ELSE SubSeq(s, 1, i - 1)

\* urllib.parse._splitparams: ";params" is cut from the last path segment
splitparams(s) ==
    LET slash == rfind(s, <<"/">>)
        i == IF slash = 0 THEN find(s, <<";">>, 1) ELSE find(s, <<";">>, slash)
    IN IF i = 0 THEN s ELSE SubSeq(s, 1, i - 1)

\* urlparse(url).path of a URL reference without scheme and host
urlparse_path(text) == splitparams(before(before(text, "#"), "?"))

-----------------------------------------------------------------------------
(* Text constants of the program *)

ApiReport == <<"/","a","p","i","/","r","e","p","o","r","t">>
ApiInventory == <<"/","a","p","i","/","i","n","v","e","n","t","o","r","y">>
ApiDelete == <<"/","a","p","i","/","d","e","l","e","t","e","/">>

PyNone == "<None>"
NoTime == [none |-> TRUE]
NoAttr == "<no attribute>"

VarcharName == 255
VarcharIp == 45
VarcharLocation == 255
VarcharStatus == 50

JsonHeaders == [ContentType |-> "application/json"]

-----------------------------------------------------------------------------
(* Values the program receives: requests, bodies, payloads *)

nA == <<"a">>
nB == <<"b">>
nNested == nA \o ApiDelete \o nB      \* the server name "a/api/delete/b"
AbsentName == <<"<absent>">>
Absent == "<absent>"

ip1 == "10.0.0.5"
ip2 == "10.0.0.6"
LongIp == "xxxxxxxxxxxxxxxxxxxxxxxxxxxxxxxxxxxxxxxxxxxxxx"   \* 46 characters

\* len() of the text values the model uses
StrLen(s) ==
    CASE s = ip1 -> 8 [] s = ip2 -> 8 [] s = LongIp -> 46
      [] s = "Unknown" -> 7 [] s = "Online" -> 6 [] s = "dc1" -> 3 [] s = "Offline" -> 7
      [] OTHER -> 0

\* a JSON object as a Python dict: a function on the keys that are present
Dict(n, i, l, s) ==
    LET keys == (IF n = AbsentName THEN {} ELSE {"name"}) \cup (IF i = Absent THEN {} ELSE {"ip"})
                \cup (IF l = Absent THEN {} ELSE {"location"})
                \cup (IF s = Absent THEN {} ELSE {"status"})
    IN [k \in keys |-> CASE k = "name" -> n [] k = "ip" -> i
                         [] k = "location" -> l [] k = "status" -> s]

JObject(d) == [t |-> "object", obj |-> d, s |-> <<>>]
JList == [t |-> "list", obj |-> <<>>, s |-> <<>>]             \* the JSON text []
JNumber == [t |-> "number", obj |-> <<>>, s |-> <<>>]         \* the JSON text 7
JNull == [t |-> "null", obj |-> <<>>, s |-> <<>>]             \* the JSON text null
JString(s) == [t |-> "string", obj |-> <<>>, s |-> s]
NameIpText == <<"n","a","m","e",",","i","p">>                  \* the JSON text "name,ip"

BodyNone == [kind |-> "None", value |-> JNull]            \* request.body is None
BodyMalformed == [kind |-> "malformed", value |-> JNull]  \* text that is not JSON
BodyBadBytes == [kind |-> "badbytes", value |-> JNull]   \* bytes that are not UTF-8
BodyJson(v) == [kind |-> "json", value |-> v]

UrlStr(text) == [kind |-> "str", text |-> text]
UrlBytes(text) == [kind |-> "bytes", text |-> text]
UrlMissing == [kind |-> "missing", text |-> <<>>]         \* request has no usable .url

Request(m, u, b) == [method |-> m, url |-> u, body |-> b]
NoRequest == Request("", UrlMissing, BodyNone)

-----------------------------------------------------------------------------
(* Response envelope *)

\* json.dumps: raises TypeError on a datetime, otherwise the JSON text of v
Serializable(rows) == \A r \in rows : "dt" \notin DOMAIN r.last_report
json_dumps(v) == [json |-> v]

Response(code, payload) ==
    [statusCode |-> code, body |-> json_dumps(payload), headers |-> JsonHeaders]
ErrorResponse(code, msg) == Response(code, [error |-> msg])
MessageResponse(code, parts) == Response(code, [message |-> parts])

NoResponse == [statusCode |-> 0, body |-> [none |-> TRUE], headers |-> [none |-> TRUE]]
\* an exception that left handler(): the caller gets no response dict
Raised(exc) == [statusCode |-> -1, body |-> [exception |-> exc], headers |-> [none |-> TRUE]]

EndpointNotFound == ErrorResponse(404, "Endpoint not found.")
InternalServerError == ErrorResponse(500, "Internal server error.")
MissingFields == ErrorResponse(400, "Missing required fields (name, ip)")
InvalidJson == ErrorResponse(400, "Invalid JSON payload or missing fields.")
ReportFailed == ErrorResponse(500, "Failed to update server data due to a database error.")
InventoryFailed == ErrorResponse(500, "Failed to retrieve inventory.")
DeleteFailed == ErrorResponse(500, "Failed to delete server.")
ServerNotFound == ErrorResponse(404, "Server not found.")
ReportOk(name) == MessageResponse(200, <<"Server ", name, " data updated successfully.">>)
DeleteOk(name) == MessageResponse(200, <<"Server ", name, " deleted successfully.">>)

-----------------------------------------------------------------------------
(* handler: routing (lines 73-106) *)

NoOp == [h |-> "none", name |-> <<>>]

\* What lines 78-97 select for a request.  "raise": an exception before the try
\* block; "error500": an exception inside it.
Dispatch(r) ==
    IF r.url.kind = "missing" \/ r.method = NoAttr
    THEN [h |-> "raise", name |-> <<>>]                  \* lines 78-79, outside try
    ELSE IF r.url.kind = "bytes"
    THEN [h |-> "error500", name |-> <<>>]               \* bytes path: startswith(str) raises
    ELSE LET path == urlparse_path(r.url.text)
         IN IF path = ApiReport /\ r.method = "POST" THEN [h |-> "report", name |-> <<>>]
            ELSE IF path = ApiInventory /\ r.method = "GET"
            THEN [h |-> "inventory", name |-> <<>>]
            ELSE IF startswith(path, ApiDelete) /\ r.method = "DELETE"
            THEN [h |-> "delete", name |-> split(path, ApiDelete)[2]]
            ELSE [h |-> "notfound", name |-> <<>>]

-----------------------------------------------------------------------------
(* handle_report before the store is touched (lines 111-121) *)

\* json.loads(request.body): the exception it raises, or "ok"
json_loads(body) ==
    CASE body.kind = "None" -> "TypeError"
      [] body.kind = "malformed" -> "JSONDecodeError"
      [] body.kind = "badbytes" -> "UnicodeDecodeError"
      [] OTHER -> "ok"

KeyChars(k) == IF k = "name" THEN <<"n","a","m","e">> ELSE <<"i","p">>

\* Python's `k in v`: "yes", "no", or "TypeError" when v is not a container
py_in(k, v) ==
    CASE v.t = "object" -> IF k \in DOMAIN v.obj THEN "yes" ELSE "no"
      [] v.t = "list" -> "no"
      [] v.t = "string" -> IF find(v.s, KeyChars(k), 1) # 0 THEN "yes" ELSE "no"
      [] OTHER -> "TypeError"

\* line 116: "name" not in server_data or "ip" not in server_data
MissingRequiredNameOnly(v) ==
    CASE py_in("name", v) = "TypeError" -> "TypeError"
      [] py_in("name", v) = "no" -> "missing"
      [] OTHER -> "ok"

MissingRequired(v) ==
    CASE py_in("name", v) = "TypeError" -> "TypeError"
      [] py_in("name", v) = "no" -> "missing"
      [] py_in("ip", v) = "TypeError" -> "TypeError"
      [] py_in("ip", v) = "no" -> "missing"
      [] OTHER -> "ok"

\* outcome of lines 113-121: "ok" means the handler goes on to get_db_connection
ReportPrecheck(body) ==
    IF json_loads(body) # "ok" THEN json_loads(body) ELSE MissingRequired(body.value)

\* the response of the except clauses (lines 150-163) and of line 117
ReportEarlyResponse(outcome) ==
    CASE outcome = "missing" -> MissingFields
      [] outcome \in {"JSONDecodeError", "KeyError"} -> InvalidJson
      [] OTHER -> ReportFailed

-----------------------------------------------------------------------------
(* The servers table (lines 51-58) and the statements run on it *)

Row(n, i, l, s, t) == [name |-> n, ip |-> i, location |-> l, status |-> s, last_report |-> t]
DateTime(n) == [dt |-> n]
isoformat(d) == [iso |-> d.dt]

dict_get(d, k, default) == IF k \in DOMAIN d THEN d[k] ELSE default

\* the parameter tuple of lines 135-141
ReportRowNoDefaults(d, now) ==
    Row(d.name, d.ip, dict_get(d, "location", PyNone), dict_get(d, "status", PyNone),
        DateTime(now))

ReportRow(d, now) ==
    Row(d.name, d.ip, dict_get(d, "location", "Unknown"), dict_get(d, "status", "Online"),
        DateTime(now))

\* column constraints of lines 53-57
TableAccepts(row) ==
    /\ Len(row.name) <= VarcharName
    /\ row.ip # PyNone /\ StrLen(row.ip) <= VarcharIp
    /\ StrLen(row.location) <= VarcharLocation
    /\ StrLen(row.status) <= VarcharStatus

\* the psycopg2 error a rejected row raises
ConstraintError(row) == IF row.ip = PyNone THEN "NotNullViolation" ELSE "StringDataRightTruncation"

\* INSERT ... ON CONFLICT (name) DO UPDATE SET ... (lines 126-134)
UpsertPlainInsert(st, row) == st \cup {row}

UpsertIpOnly(st, row) ==
    IF \E r \in st : r.name = row.name
    THEN {IF r.name = row.name
          THEN [r EXCEPT !.ip = row.ip, !.last_report = row.last_report]
          ELSE r : r \in st}
    ELSE st \cup {row}

Upsert(st, row) ==
    IF \E r \in st : r.name = row.name
    THEN {IF r.name = row.name
          THEN [r EXCEPT !.ip = row.ip, !.location = row.location,
                         !.status = row.status, !.last_report = row.last_report]
          ELSE r : r \in st}
    ELSE st \cup {row}

\* DELETE FROM servers WHERE name = %s (line 208) and cur.rowcount (line 209)
Delete(st, name) == {r \in st : r.name # name}
RowCount(st, name) == Cardinality({r \in st : r.name = name})

\* lines 178-183: dict(row), last_report rendered with isoformat unless None
InventoryRows(st) ==
    {[r EXCEPT !.last_report = IF r.last_report # NoTime THEN isoformat(r.last_report)
                               ELSE r.last_report] : r \in st}

-----------------------------------------------------------------------------
(* Connections (lines 25-40) and the finally blocks *)

Callers == {"c1", "c2"}

NoPending == [kind |-> "none", name |-> <<>>]
NoReport == [none |-> TRUE]

\* get_db_connection: "ok", or the exception it raises
get_db_connectionUnchecked(url, up) == IF url /\ up THEN "ok" ELSE "OperationalError"

get_db_connection(url, up) ==
    IF ~url THEN "ValueError"                    \* lines 27-29
    ELSE IF ~up THEN "OperationalError"          \* lines 35-37
    ELSE "ok"

\* the message of the exception get_db_connection raised
ConnectError(outcome) ==
    IF outcome = "ValueError" THEN "DATABASE_URL environment variable is not set."
    ELSE "could not connect to server"

\* `finally: if conn: conn.close()`: TRUE iff close() is called.  completed says
\* whether the try block ran to its return.
finally_closeOnSuccessOnly(cn, completed) == cn = "open" /\ completed

finally_close(cn, completed) == cn = "open"

\* connections left open once a handler that opened `opened` of them has returned
AfterFinally(n, cn, completed) == IF finally_close(cn, completed) THEN n - 1 ELSE n

\* the generic failure response of each handler's `except (Exception, psycopg2.Error)`
FailureResponse(h) ==
    CASE h = "report" -> ReportFailed
      [] h = "inventory" -> InventoryFailed
      [] OTHER -> DeleteFailed

FailurePrefix(h) ==
    CASE h = "report" -> "Error handling report"
      [] h = "inventory" -> "Error getting inventory"
      [] OTHER -> "Error deleting server"

NoLog == <<>>

\* another caller's open transaction has written the row called name
LockedByOther(c, name) ==
    \E o \in Callers \ {c} : pending[o].kind # "none" /\ pending[o].name = name

\* the server name a routed request is about
TargetName(c) ==
    IF op[c].h = "delete" THEN op[c].name
    ELSE IF op[c].h = "report" /\ req[c].body.value.t = "object"
    THEN req[c].body.value.obj.name
    ELSE <<>>

-----------------------------------------------------------------------------
(* Startup: create_servers_table() at import (lines 42-69) *)

create_servers_table ==
    /\ ~started
    /\ started' = TRUE
    /\ \E up \in BOOLEAN :
       LET outcome == get_db_connection(DATABASE_URL, up)
       IN IF outcome = "ok"
          THEN /\ tableExists' = TRUE
               /\ openConns' = AfterFinally(openConns + 1, "open", TRUE)
               /\ startupLog' = startupLog
          ELSE /\ tableExists' = tableExists
               /\ openConns' = AfterFinally(openConns, "None", FALSE)
               /\ startupLog' = <<"Error while connecting to or creating table in PostgreSQL",
                                   ConnectError(outcome)>>
    /\ UNCHANGED <<DATABASE_URL, store, clock, pc, req, reqTime, op, conn, pending,
                   resp, log, raced, lastReport, sawReport, nreq>>

-----------------------------------------------------------------------------
(* One request: handler(request) and the handler it dispatches to *)

\* handler is entered with request r; runs up to the first use of the store
handler(c, r) ==
    /\ started /\ pc[c] \in {"idle", "done"} /\ nreq < MaxRequests
    /\ nreq' = nreq + 1
    /\ req' = [req EXCEPT ![c] = r]
    /\ reqTime' = [reqTime EXCEPT ![c] = clock]
    /\ LET d == Dispatch(r)
           pre == IF d.h = "report" THEN ReportPrecheck(r.body) ELSE "ok"
       IN /\ op' = [op EXCEPT ![c] = d]
          /\ CASE d.h = "raise" ->
                    /\ resp' = [resp EXCEPT ![c] = Raised("AttributeError")]
                    /\ log' = [log EXCEPT ![c] = NoLog]
                    /\ pc' = [pc EXCEPT ![c] = "done"]
               [] d.h = "error500" ->
                    /\ resp' = [resp EXCEPT ![c] = InternalServerError]
                    /\ log' = [log EXCEPT ![c] =
                                 <<"An unexpected error occurred in handler", "TypeError">>]
                    /\ pc' = [pc EXCEPT ![c] = "done"]
               [] d.h = "notfound" ->
                    /\ resp' = [resp EXCEPT ![c] = EndpointNotFound]
                    /\ log' = [log EXCEPT ![c] = NoLog]
                    /\ pc' = [pc EXCEPT ![c] = "done"]
               [] d.h = "report" /\ pre # "ok" ->
                    /\ resp' = [resp EXCEPT ![c] = ReportEarlyResponse(pre)]
                    /\ log' = [log EXCEPT ![c] =
                                 IF pre = "missing" THEN NoLog
                                 ELSE IF pre = "JSONDecodeError"
                                 THEN <<"Invalid JSON payload or missing key", pre>>
                                 ELSE <<FailurePrefix("report"), pre>>]
                    /\ pc' = [pc EXCEPT ![c] = "done"]
               [] OTHER ->
                    /\ resp' = [resp EXCEPT ![c] = NoResponse]
                    /\ log' = [log EXCEPT ![c] = NoLog]
                    /\ pc' = [pc EXCEPT ![c] = "connect"]
    /\ conn' = [conn EXCEPT ![c] = "None"]
    /\ openConns' = AfterFinally(openConns, "None", TRUE)
    /\ raced' = [raced EXCEPT ![c] = FALSE]
    /\ sawReport' = [sawReport EXCEPT ![c] = NoReport]
    /\ UNCHANGED <<startupLog, DATABASE_URL, started, tableExists, store, clock, pending,
                   lastReport>>

\* conn = get_db_connection() (lines 123, 172, 206)
Connect(c) ==
    /\ pc[c] = "connect"
    /\ \E up \in BOOLEAN :
       LET outcome == get_db_connection(DATABASE_URL, up)
       IN IF outcome = "ok"
          THEN /\ conn' = [conn EXCEPT ![c] = "open"]
               /\ openConns' = openConns + 1
               /\ pc' = [pc EXCEPT ![c] = "execute"]
               /\ raced' = [raced EXCEPT ![c] = LockedByOther(c, TargetName(c))]
               /\ UNCHANGED <<resp, log>>
          ELSE /\ resp' = [resp EXCEPT ![c] = FailureResponse(op[c].h)]
               /\ log' = [log EXCEPT ![c] = <<FailurePrefix(op[c].h), ConnectError(outcome)>>]
               /\ pc' = [pc EXCEPT ![c] = "done"]
               /\ openConns' = AfterFinally(openConns, conn[c], FALSE)
               /\ UNCHANGED <<conn, raced>>
    /\ UNCHANGED <<startupLog, DATABASE_URL, started, tableExists, store, clock, req, reqTime, op,
                   pending, lastReport, sawReport, nreq>>

\* the handler leaves through its except clause: response, log line, finally
Fail(c, cause) ==
    /\ resp' = [resp EXCEPT ![c] = FailureResponse(op[c].h)]
    /\ log' = [log EXCEPT ![c] = <<FailurePrefix(op[c].h), cause>>]
    /\ pending' = [pending EXCEPT ![c] = NoPending]
    /\ conn' = [conn EXCEPT ![c] = IF finally_close(conn[c], FALSE) THEN "closed" ELSE conn[c]]
    /\ openConns' = AfterFinally(openConns, conn[c], FALSE)
    /\ pc' = [pc EXCEPT ![c] = "done"]

\* the handler returns r from inside its try block: finally
Succeed(c, r) ==
    /\ resp' = [resp EXCEPT ![c] = r]
    /\ pending' = [pending EXCEPT ![c] = NoPending]
    /\ conn' = [conn EXCEPT ![c] = IF finally_close(conn[c], TRUE) THEN "closed" ELSE conn[c]]
    /\ openConns' = AfterFinally(openConns, conn[c], TRUE)
    /\ pc' = [pc EXCEPT ![c] = "done"]

\* why a statement cannot run at all, or "ok"; up: the server answers this time
StoreFault(up) == IF ~up THEN "OperationalError" ELSE IF ~tableExists THEN "UndefinedTable" ELSE "ok"

\* cur.execute(sql, (...)) of handle_report (lines 124-141)
ExecuteReport(c) ==
    /\ pc[c] = "execute" /\ op[c].h = "report"
    /\ \E up \in BOOLEAN :
       LET data == req[c].body.value
       IN IF data.t # "object"
          THEN Fail(c, "TypeError") /\ UNCHANGED <<raced>>
          ELSE LET row == ReportRow(data.obj, clock)
               IN IF StoreFault(up) # "ok" THEN Fail(c, StoreFault(up)) /\ UNCHANGED <<raced>>
                  ELSE IF ~TableAccepts(row) THEN Fail(c, ConstraintError(row)) /\ UNCHANGED <<raced>>
                  ELSE /\ ~LockedByOther(c, row.name)
                       /\ pending' = [pending EXCEPT ![c] =
                                        [kind |-> "upsert", name |-> row.name, row |-> row]]
                       /\ pc' = [pc EXCEPT ![c] = "commit"]
                       /\ UNCHANGED <<resp, log, conn, openConns, raced>>
    /\ UNCHANGED <<startupLog, DATABASE_URL, started, tableExists, store, clock, req, reqTime, op,
                   lastReport, sawReport, nreq>>

\* handle_get_inventory after the connection is open (lines 173-189)
ExecuteInventory(c) ==
    /\ pc[c] = "execute" /\ op[c].h = "inventory"
    /\ \E up \in BOOLEAN :
       IF StoreFault(up) # "ok"
       THEN Fail(c, StoreFault(up)) /\ UNCHANGED sawReport
       ELSE LET rows == InventoryRows(store)
            IN /\ IF Serializable(rows)
                  THEN Succeed(c, Response(200, [rows |-> rows])) /\ UNCHANGED log
                  ELSE Fail(c, "TypeError")
               /\ sawReport' = [sawReport EXCEPT ![c] = lastReport]
    /\ UNCHANGED <<startupLog, DATABASE_URL, started, tableExists, store, clock, req, reqTime, op,
                   raced, lastReport, nreq>>

\* cur.execute("DELETE ...") and cur.rowcount (lines 207-209)
ExecuteDelete(c) ==
    /\ pc[c] = "execute" /\ op[c].h = "delete"
    /\ \E up \in BOOLEAN :
       IF StoreFault(up) # "ok"
       THEN Fail(c, StoreFault(up))
       ELSE LET n == RowCount(store, op[c].name)
            IN /\ n > 0 => ~LockedByOther(c, op[c].name)
               /\ pending' = [pending EXCEPT ![c] =
                                IF n > 0 THEN [kind |-> "delete", name |-> op[c].name, rowcount |-> n]
                                ELSE [kind |-> "nodelete", name |-> AbsentName, rowcount |-> 0]]
               /\ pc' = [pc EXCEPT ![c] = "commit"]
               /\ UNCHANGED <<resp, log, conn, openConns>>
    /\ UNCHANGED <<startupLog, DATABASE_URL, started, tableExists, store, clock, req, reqTime, op,
                   raced, lastReport, sawReport, nreq>>

\* conn.commit() and the return that follows it (lines 142-148, 210-225)
Commit(c) ==
    /\ pc[c] = "commit"
    /\ \E up \in BOOLEAN :
       IF ~up
       THEN Fail(c, "OperationalError") /\ UNCHANGED <<store, lastReport>>
       ELSE IF pending[c].kind = "upsert"
       THEN /\ store' = Upsert(store, pending[c].row)
            /\ lastReport' = [data |-> req[c].body.value.obj, reqTime |-> reqTime[c]]
            /\ Succeed(c, ReportOk(req[c].body.value.obj.name))
            /\ UNCHANGED log
       ELSE IF pending[c].kind = "delete"
       THEN /\ store' = Delete(store, pending[c].name)
            /\ lastReport' = NoReport
            /\ Succeed(c, DeleteOk(op[c].name))
            /\ UNCHANGED log
       ELSE /\ Succeed(c, ServerNotFound)
            /\ log' = [log EXCEPT ![c] = <<"Attempted to delete non-existent server", "">>]
            /\ UNCHANGED <<store, lastReport>>
    /\ UNCHANGED <<startupLog, DATABASE_URL, started, tableExists, clock, req, reqTime, op, raced,
                   sawReport, nreq>>

-----------------------------------------------------------------------------
(* Environment *)

Tick == clock < MaxClock /\ clock' = clock + 1
        /\ UNCHANGED <<startupLog, DATABASE_URL, started, tableExists, store, openConns, pc, req,
                       reqTime, op, conn, pending, resp, log, raced, lastReport, sawReport, nreq>>

-----------------------------------------------------------------------------
(* Inputs and initial states *)

\* JSON objects with and without the required keys
Payloads ==
    {Dict(n, i, Absent, Absent) : n \in {AbsentName, nA}, i \in {Absent, ip1, PyNone}}
    \cup {Dict(AbsentName, Absent, "dc1", "Offline"), Dict(nA, Absent, "dc1", "Offline")}

Bodies ==
    {BodyNone, BodyMalformed, BodyBadBytes}
    \cup {BodyJson(v) : v \in {JList, JNumber, JNull, JString(NameIpText)}}
    \cup {BodyJson(JObject(d)) : d \in Payloads}

DeleteRemainders == {<<>>, nA, <<"a", "/", "b">>, nNested, ApiDelete, <<"a", "?", "b">>}

Urls ==
    {UrlStr(ApiReport), UrlStr(ApiInventory), UrlStr(ApiInventory \o <<"?", "q">>),
     UrlStr(<<"/", "x">>), UrlBytes(ApiInventory), UrlMissing}
    \cup {UrlStr(ApiDelete \o r) : r \in DeleteRemainders}

\* requests of every shape the router and the validation of handle_report tell apart
RouterRequests ==
    {Request("POST", UrlStr(ApiReport), b) : b \in Bodies}
    \cup {Request("GET", u, BodyNone) : u \in Urls}
    \cup {Request("DELETE", UrlStr(ApiDelete \o r), BodyNone) : r \in DeleteRemainders}
    \cup {Request("POST", UrlStr(ApiInventory), BodyNone),
          Request(NoAttr, UrlStr(ApiInventory), BodyNone)}

\* requests that reach the store: reports, inventory queries, deletes
Requests ==
    {Request("POST", UrlStr(ApiReport), BodyJson(v)) :
        v \in {JObject(Dict(nA, ip1, Absent, Absent)), JObject(Dict(nA, ip2, "dc1", "Offline")),
               JObject(Dict(nA, ip1, "dc1", Absent)), JObject(Dict(nA, LongIp, Absent, Absent)),
               JObject(Dict(nNested, ip1, Absent, Absent)), JString(NameIpText)}}
    \cup {Request("GET", UrlStr(ApiInventory), BodyNone)}
    \cup {Request("DELETE", UrlStr(ApiDelete \o r), BodyNone) : r \in {nA, nB, nNested}}

\* the requests of two callers racing on the server name "a"
RaceRequests ==
    {Request("POST", UrlStr(ApiReport), BodyJson(JObject(d))) :
        d \in {Dict(nA, ip1, Absent, Absent), Dict(nA, ip2, "dc1", "Offline"),
               Dict(nA, PyNone, Absent, Absent), Dict(nB, ip1, "dc1", Absent)}}
    \cup {Request("GET", UrlStr(ApiInventory), BodyNone),
          Request("DELETE", UrlStr(ApiDelete \o nA), BodyNone)}

\* what the table may hold when the process starts
InitialStores ==
    {{}, {Row(nA, ip2, "dc1", "Offline", DateTime(0))},
     {Row(nA, ip1, PyNone, PyNone, NoTime), Row(nNested, ip1, "Unknown", "Online", DateTime(0))}}

InitWith(urls, stores) ==
    /\ DATABASE_URL \in urls
    /\ tableExists \in BOOLEAN
    /\ store \in IF tableExists THEN stores ELSE {{}}
    /\ started = FALSE
    /\ clock = 0
    /\ openConns = 0
    /\ pc = [c \in Callers |-> "idle"]
    /\ req = [c \in Callers |-> NoRequest]
    /\ reqTime = [c \in Callers |-> 0]
    /\ op = [c \in Callers |-> NoOp]
    /\ conn = [c \in Callers |-> "None"]
    /\ pending = [c \in Callers |-> NoPending]
    /\ resp = [c \in Callers |-> NoResponse]
    /\ log = [c \in Callers |-> NoLog]
    /\ startupLog = NoLog
    /\ raced = [c \in Callers |-> FALSE]
    /\ lastReport = NoReport
    /\ sawReport = [c \in Callers |-> NoReport]
    /\ nreq = 0

Init == InitWith(BOOLEAN, InitialStores)

InitRouter == InitWith({TRUE}, {{Row(nA, ip2, "dc1", "Offline", DateTime(0))}})

InitRace == InitWith({TRUE}, {{}, {Row(nA, ip2, "dc1", "Offline", DateTime(0))}})

\* the steps of one request once handler has been entered
Step(c) ==
    \/ Connect(c)
    \/ ExecuteReport(c)
    \/ ExecuteInventory(c)
    \/ ExecuteDelete(c)
    \/ Commit(c)

\* one caller, requests that use the store
Next ==
    \/ create_servers_table
    \/ \E r \in Requests : handler("c1", r)
    \/ Step("c1")
    \/ Tick

Spec == Init /\ [][Next]_vars

\* one caller, requests of every shape
NextRouter ==
    \/ create_servers_table
    \/ \E r \in RouterRequests : handler("c1", r)
    \/ Step("c1")
    \/ Tick

SpecRouter == InitRouter /\ [][NextRouter]_vars

\* two callers, their steps interleaved
NextRace ==
    \/ create_servers_table
    \/ \E c \in Callers : \E r \in RaceRequests : handler(c, r)
    \/ \E c \in Callers : Step(c)

SpecRace == InitRace /\ [][NextRace]_vars

-----------------------------------------------------------------------------
(* Vocabulary of the properties *)

Done(c) == pc[c] = "done"
IsReport(r) == r.method = "POST" /\ r.url = UrlStr(ApiReport)
IsObject(r) == r.body.kind = "json" /\ r.body.value.t = "object"
Payload(c) == req[c].body.value.obj
HasNameAndIp(r) == IsObject(r) /\ {"name", "ip"} \subseteq DOMAIN r.body.value.obj

\* the causes that mean the store could not be reached or lacks the table
StoreFaults == {"could not connect to server", "OperationalError", "UndefinedTable"}
\* the exception named in the caller's last log line, "" when it logged none
Cause(c) == IF log[c] = NoLog THEN "" ELSE log[c][2]
NoStoreFault(c) == Cause(c) \notin StoreFaults

\* the values a payload asks for, with the documented defaults
Wanted(d, r) ==
    /\ r.ip = d.ip
    /\ r.location = (IF "location" \in DOMAIN d THEN d.location ELSE "Unknown")
    /\ r.status = (IF "status" \in DOMAIN d THEN d.status ELSE "Online")

\* the remainder of the request path after the prefix /api/delete/
Remainder(r) ==
    LET path == urlparse_path(r.url.text)
    IN SubSeq(path, Len(ApiDelete) + 1, Len(path))
IsDelete(r) ==
    r.method = "DELETE" /\ r.url.kind = "str" /\ startswith(urlparse_path(r.url.text), ApiDelete)

-----------------------------------------------------------------------------
(* C1: in every reachable state, under any interleaving of reports, inventory  *)
(* queries and deletes, the store holds at most one row per name.              *)
C1_OneRowPerName == \A r1, r2 \in store : r1.name = r2.name => r1 = r2

\* both callers have reported the name "a" with different ip values, one of them
\* while the other's transaction on that name was open
C1_Witness ==
    /\ Done("c1") /\ Done("c2")
    /\ resp["c1"] = ReportOk(nA) /\ resp["c2"] = ReportOk(nA)
    /\ Payload("c1").ip # Payload("c2").ip
    /\ raced["c1"] \/ raced["c2"]
    /\ \E r \in store : r.name = nA

-----------------------------------------------------------------------------
(* C2 *)

RaceCase(a, b) ==
    /\ a # b /\ Done(a) /\ Done(b)
    /\ IsReport(req[a]) /\ IsReport(req[b])
    /\ HasNameAndIp(req[a]) /\ HasNameAndIp(req[b])
    /\ Payload(a).name = Payload(b).name
    /\ NoStoreFault(a) /\ NoStoreFault(b)

RaceOutcome(a, b) ==
    /\ resp[a].statusCode = 200 /\ resp[b].statusCode = 200
    /\ LET rows == {r \in store : r.name = Payload(a).name}
       IN /\ Cardinality(rows) = 1
          /\ \A r \in rows : Wanted(Payload(a), r) \/ Wanted(Payload(b), r)

Accepted(c) == TableAccepts(ReportRow(Payload(c), 0))

(* C2 as stated: two reports of the same name, each with name and ip and the   *)
(* store reachable, both return 200 and leave exactly one row for the name,    *)
(* with ip, location and status all from one of the two payloads.              *)
C2_Original == \A a, b \in Callers : RaceCase(a, b) => RaceOutcome(a, b)

(* C2 amended: the same, for payloads whose values the table accepts (ip not   *)
(* null and within the column widths of lines 53-56).                          *)
C2_Amended ==
    \A a, b \in Callers : RaceCase(a, b) /\ Accepted(a) /\ Accepted(b) => RaceOutcome(a, b)

\* two accepted reports of "a" with different payloads, one made while the
\* other's transaction was open, have both returned
C2_Witness ==
    /\ RaceCase("c1", "c2") /\ Accepted("c1") /\ Accepted("c2")
    /\ Payload("c1") # Payload("c2")
    /\ raced["c1"] \/ raced["c2"]
    /\ resp["c1"].statusCode = 200 /\ resp["c2"].statusCode = 200

-----------------------------------------------------------------------------
(* C3: an inventory query that directly follows a report which returned 200    *)
(* shows exactly one record with the payload's name; its ip is the payload's,  *)
(* its location and status are the payload's or the defaults "Unknown" and     *)
(* "Online", and its last_report is no earlier than the time of the request.   *)
C3_ReportThenInventory ==
    \A c \in Callers :
        (Done(c) /\ op[c].h = "inventory" /\ resp[c].statusCode = 200 /\ sawReport[c] # NoReport)
        => LET d == sawReport[c].data
               rows == {r \in resp[c].body.json.rows : r.name = d.name}
           IN /\ Cardinality(rows) = 1
              /\ \A r \in rows :
                    /\ Wanted(d, r)
                    /\ "iso" \in DOMAIN r.last_report
                    /\ r.last_report.iso >= sawReport[c].reqTime

\* the query follows a report of "a" that omitted location and status and was
\* received at time 1
C3_Witness ==
    /\ Done("c1") /\ op["c1"].h = "inventory" /\ resp["c1"].statusCode = 200
    /\ sawReport["c1"] # NoReport
    /\ sawReport["c1"].data = Dict(nA, ip1, Absent, Absent)
    /\ sawReport["c1"].reqTime = 1
    /\ Row(nA, ip1, "Unknown", "Online", [iso |-> 1]) \in resp["c1"].body.json.rows

-----------------------------------------------------------------------------
(* C4: a report whose JSON object lacks name or ip returns 400 "Missing        *)
(* required fields (name, ip)", opens no connection and leaves the store as    *)
(* it was.                                                                     *)
C4_MissingFields ==
    [][\A c \in Callers :
         (nreq' = nreq + 1 /\ pc[c] \in {"idle", "done"}
          /\ IsReport(req'[c]) /\ IsObject(req'[c]) /\ ~HasNameAndIp(req'[c]))
         => /\ resp'[c] = MissingFields
            /\ pc'[c] = "done"
            /\ conn'[c] = "None"
            /\ openConns' = openConns
            /\ store' = store
            /\ pending' = pending]_vars

\* a report with name but without ip has been answered
C4_Witness ==
    /\ Done("c1") /\ IsReport(req["c1"]) /\ IsObject(req["c1"])
    /\ DOMAIN Payload("c1") = {"name"}
    /\ resp["c1"] = MissingFields

-----------------------------------------------------------------------------
(* C5: with the store reachable, DELETE /api/delete/{name} returns 200 exactly *)
(* when a record with that exact name is in the store at the time of the       *)
(* delete, and the record is gone afterwards; when no record has that name it  *)
(* returns 404 "Server not found." and the store is unchanged.                 *)
C5_DeleteExact ==
    [][\A c \in Callers :
         (pc[c] = "commit" /\ pc'[c] = "done" /\ IsDelete(req[c]) /\ NoStoreFault(c)')
         => LET name == Remainder(req[c])
                present == \E r \in store : r.name = name
            IN IF present
               THEN /\ resp'[c] = DeleteOk(name)
                    /\ ~\E r \in store' : r.name = name
                    /\ store' = {r \in store : r.name # name}
               ELSE /\ resp'[c] = ServerNotFound
                    /\ store' = store]_vars

\* the same statement about the name handle_delete_server is given
C5_DeleteGivenName ==
    [][\A c \in Callers :
         (pc[c] = "commit" /\ pc'[c] = "done" /\ op[c].h = "delete" /\ NoStoreFault(c)')
         => LET name == op[c].name
                present == \E r \in store : r.name = name
            IN IF present
               THEN /\ resp'[c] = DeleteOk(name)
                    /\ store' = {r \in store : r.name # name}
               ELSE /\ resp'[c] = ServerNotFound
                    /\ store' = store]_vars

\* a delete of the stored name "a" has returned 200 and the row is gone
C5_Witness ==
    /\ Done("c1") /\ IsDelete(req["c1"]) /\ Remainder(req["c1"]) = nA
    /\ resp["c1"] = DeleteOk(nA)
    /\ ~\E r \in store : r.name = nA

-----------------------------------------------------------------------------
(* C6: a report whose body is malformed JSON or is missing returns 400         *)
(* "Invalid JSON payload or missing fields.", never 500, and the store is      *)
(* unchanged.                                                                  *)
C6_InvalidBody ==
    [][\A c \in Callers :
         (nreq' = nreq + 1 /\ pc[c] \in {"idle", "done"}
          /\ IsReport(req'[c]) /\ req'[c].body.kind \in {"None", "malformed", "badbytes"})
         => /\ resp'[c] = InvalidJson
            /\ store' = store]_vars

\* a report whose body is not JSON text has been answered with the 400
C6_Witness ==
    /\ Done("c1") /\ IsReport(req["c1"]) /\ req["c1"].body = BodyMalformed
    /\ resp["c1"] = InvalidJson

-----------------------------------------------------------------------------
(* C7: for every DELETE whose path starts with /api/delete/, the name given to *)
(* the delete handler is the whole remainder of the path after that prefix.    *)
C7_LiteralRemainder ==
    \A c \in Callers :
        (pc[c] # "idle" /\ IsDelete(req[c]))
        => op[c].h = "delete" /\ op[c].name = Remainder(req[c])

\* a DELETE whose remainder contains '/' has been routed with the whole remainder
C7_Witness ==
    /\ pc["c1"] # "idle" /\ IsDelete(req["c1"])
    /\ Remainder(req["c1"]) = <<"a", "/", "b">>
    /\ op["c1"] = [h |-> "delete", name |-> <<"a", "/", "b">>]

-----------------------------------------------------------------------------
(* C8: every call of handler ends with a structured JSON response; a failure   *)
(* during dispatch, reading the request's URL and method included, yields 500  *)
(* "Internal server error."; nothing propagates out of handler.                *)
DispatchFails(r) == r.url.kind # "str" \/ r.method = NoAttr

C8_AlwaysStructured ==
    \A c \in Callers :
        Done(c) => /\ resp[c].statusCode \in {200, 400, 404, 500}
                   /\ resp[c].headers = JsonHeaders
                   /\ "json" \in DOMAIN resp[c].body
                   /\ DispatchFails(req[c]) => resp[c] = InternalServerError

\* a failure inside the try block of handler has been turned into the 500
C8_Witness ==
    /\ Done("c1") /\ req["c1"].url.kind = "bytes" /\ req["c1"].method # NoAttr
    /\ resp["c1"] = InternalServerError

-----------------------------------------------------------------------------
(* C9 *)

\* the request was routed to a handler and got as far as get_db_connection
NeedsStore(c) ==
    /\ op[c].h \in {"report", "inventory", "delete"}
    /\ op[c].h = "report" => ReportPrecheck(req[c].body) = "ok"
ConfigCause == "DATABASE_URL environment variable is not set."

-----------------------------------------------------------------------------
====
